---- MODULE Spec2Model ----
(***************************************************************************)
(* Base4 / Base4Int (src/src/lib.rs): a 2-bit digit packer.                *)
(*                                                                         *)
(* Base4 is one block: a digit count `size` and a u128 register `packed`.  *)
(* Base4Int is a VecDeque of blocks.  The u128 register is modelled at its *)
(* full width as its 64 base-4 lanes (2 bits each), most significant lane  *)
(* first, so lane LANES is the low two bits: a left shift by two bits      *)
(* drops lane 1 (the bits that leave a 128-bit register) and a right shift *)
(* by two bits drops lane LANES.                                           *)
(***************************************************************************)
EXTENDS Integers, Sequences, FiniteSets, TLC

\* The block capacity the code compares `size` with (the literal 64).
CAPACITY == 64

\* Width of the `packed: u128` register, in bits.
REGISTER_BITS == 128

\* Number of 2-bit lanes of the register.
LANES == REGISTER_BITS \div 2

\* Bounds of the model.
MaxOps == 3        \* calls made on one container / block
MaxValue == 4      \* largest integer handed to push (4 is the first out of range)
MaxBlocks == 2     \* the longest inputs fill MaxBlocks blocks and one digit more

(***************************************************************************)
(* u128 arithmetic on the lane representation.                             *)
(***************************************************************************)
U128_ZERO == [i \in 1..LANES |-> 0]

\* packed << 2 : every lane moves up by one, the top lane is lost.
Shl2(p) == Append(Tail(p), 0)

\* packed >> 2 : every lane moves down by one, the low lane is lost.
Shr2(p) == <<0>> \o SubSeq(p, 1, LANES - 1)

\* Bitwise or of two 2-bit values.
BitOr2(a, b) ==
    LET lo == IF a % 2 = 1 \/ b % 2 = 1 THEN 1 ELSE 0
        hi == IF a \div 2 = 1 \/ b \div 2 = 1 THEN 1 ELSE 0
    IN  2 * hi + lo

\* packed | integer, for an integer below 4 (it has only the low lane set).
OrLow(p, integer) == [p EXCEPT ![LANES] = BitOr2(p[LANES], integer)]

\* (packed >> shift_pos) & 0b11, shift_pos an even number of bits below 128.
LaneAt(p, shift_pos) == p[LANES - (shift_pos \div 2)]

(***************************************************************************)
(* Option<u8>: None is the empty sequence, Some(v) the one-element one.    *)
(***************************************************************************)
None == <<>>
Some(v) == <<v>>

(***************************************************************************)
(* Base4, the block codec.  Every operation returns the block after the    *)
(* call in `self` beside its return value.                                 *)
(***************************************************************************)
Base4_new == [size |-> 0, packed |-> U128_ZERO]

\* Base4_push without the capacity test.
Base4_push_no_capacity_test(self, integer) ==
    IF integer >= 4
    THEN [ok |-> FALSE, self |-> self]
    ELSE [ok |-> TRUE,
          self |-> [size |-> self.size + 1,
                    packed |-> OrLow(Shl2(self.packed), integer)]]

\* Base4_push refusing only beyond the capacity (size > 64 for size == 64).
Base4_push_capacity_off_by_one(self, integer) ==
    IF integer >= 4 \/ self.size > CAPACITY
    THEN [ok |-> FALSE, self |-> self]
    ELSE [ok |-> TRUE,
          self |-> [size |-> self.size + 1,
                    packed |-> OrLow(Shl2(self.packed), integer)]]

Base4_push(self, integer) ==
    IF integer >= 4 \/ self.size = CAPACITY
    THEN [ok |-> FALSE, self |-> self]
    ELSE [ok |-> TRUE,
          self |-> [size |-> self.size + 1,
                    packed |-> OrLow(Shl2(self.packed), integer)]]

\* Base4_push_step without the reset of size and packed.
Base4_push_step_no_reset(st, integer) ==
    IF ~st.ok THEN st
    ELSE Base4_push(st.self, integer)

\* Base4_push_step resetting size but not packed.
Base4_push_step_keeps_packed(st, integer) ==
    IF ~st.ok THEN st
    ELSE LET r == Base4_push(st.self, integer)
         IN  IF ~r.ok
             THEN [ok |-> FALSE, self |-> [size |-> 0, packed |-> r.self.packed]]
             ELSE [ok |-> TRUE, self |-> r.self]

\* One pass of the `for integer in ints` loop body; `ok` turns FALSE at the
\* failing push, which resets the block and returns.
Base4_push_step(st, integer) ==
    IF ~st.ok THEN st
    ELSE LET r == Base4_push(st.self, integer)
         IN  IF ~r.ok
             THEN [ok |-> FALSE, self |-> [size |-> 0, packed |-> U128_ZERO]]
             ELSE [ok |-> TRUE, self |-> r.self]

\* The loop over ints[lo..hi], in order (split in halves to keep the
\* evaluation shallow).
RECURSIVE Base4_push_loop(_, _, _, _)
Base4_push_loop(st, ints, lo, hi) ==
    IF lo > hi THEN st
    ELSE IF lo = hi THEN Base4_push_step(st, ints[lo])
    ELSE LET mid == (lo + hi) \div 2
             left == Base4_push_loop(st, ints, lo, mid)
         IN  IF ~left.ok THEN left
             ELSE Base4_push_loop(left, ints, mid + 1, hi)

Base4_push_all(self, ints) ==
    IF Len(ints) > CAPACITY
    THEN [ok |-> FALSE, self |-> self]
    ELSE Base4_push_loop([ok |-> TRUE, self |-> self], ints, 1, Len(ints))

\* Base4_pop without `self.packed >>= 2`: the low lane is read again.
Base4_pop_no_shift(self) ==
    IF self.size <= 0
    THEN [out |-> None, self |-> self]
    ELSE [out |-> Some(LaneAt(self.packed, 0)),
          self |-> [size |-> self.size - 1, packed |-> self.packed]]

\* Base4_pop taking the oldest digit (the highest lane in use) instead of
\* the newest.
Base4_pop_oldest_first(self) ==
    IF self.size <= 0
    THEN [out |-> None, self |-> self]
    ELSE [out |-> Some(LaneAt(self.packed, 2 * (self.size - 1))),
          self |-> [size |-> self.size - 1,
                    packed |-> [self.packed EXCEPT ![LANES - (self.size - 1)] = 0]]]

Base4_pop(self) ==
    IF self.size <= 0
    THEN [out |-> None, self |-> self]
    ELSE [out |-> Some(LaneAt(self.packed, 0)),
          self |-> [size |-> self.size - 1, packed |-> Shr2(self.packed)]]

\* Reverse left out: the digits stay in popping order.
Reverse_omitted(s) == s

Reverse(s) == [i \in 1..Len(s) |-> s[Len(s) + 1 - i]]

\* One pass of the `while let Some(value) = self.pop()` loop; `more` turns
\* FALSE when pop returns None.
Base4_pop_step(st) ==
    IF ~st.more THEN st
    ELSE LET r == Base4_pop(st.self)
         IN  IF r.out = None
             THEN [more |-> FALSE, out |-> st.out, self |-> r.self]
             ELSE [more |-> TRUE, out |-> Append(st.out, r.out[1]), self |-> r.self]

\* n passes of the loop (split in halves to keep the evaluation shallow).
RECURSIVE Base4_pop_loop(_, _)
Base4_pop_loop(st, n) ==
    IF n <= 0 THEN st
    ELSE IF n = 1 THEN Base4_pop_step(st)
    ELSE LET left == Base4_pop_loop(st, n \div 2)
         IN  IF ~left.more THEN left
             ELSE Base4_pop_loop(left, n - n \div 2)

Base4_pop_all(self) ==
    IF self.size <= 0
    THEN [out |-> <<>>, self |-> self]
    ELSE LET \* pop returns None exactly when size is 0: size + 1 passes
             r == Base4_pop_loop([more |-> TRUE, out |-> <<>>, self |-> self],
                                 self.size + 1)
         IN  [out |-> Reverse(r.out), self |-> r.self]

\* Panics: the empty tuple when the call returns, else the message with the
\* numbers it names.
NoPanic == <<>>
PanicPeekAt(index, size) == <<"peek_at: index {} out of bounds (size={})", index, size>>
PanicPop == <<"Attempt to pop an empty Base4-Integer">>
PanicPush == <<"Base4Int only accepts value bounded within 0..=3">>
PanicIndex == <<"Out of bounds access">>

\* Base4_peek_at reading the lanes from the low end (shift_pos = 2 * index).
Base4_peek_at_low_first(self, index) ==
    IF ~(index < self.size)
    THEN [panic |-> PanicPeekAt(index, self.size), out |-> None]
    ELSE LET shift_pos == 2 * index
         IN  [panic |-> NoPanic, out |-> Some(LaneAt(self.packed, shift_pos))]

Base4_peek_at(self, index) ==
    IF ~(index < self.size)
    THEN [panic |-> PanicPeekAt(index, self.size), out |-> None]
    ELSE LET shift_pos == 2 * (self.size - index - 1)
         IN  [panic |-> NoPanic, out |-> Some(LaneAt(self.packed, shift_pos))]

\* Base4_peek_all walking the indices from the newest digit down.
Base4_peek_all_newest_first(self) ==
    [index \in 1..self.size |-> Base4_peek_at(self, self.size - index).out[1]]

Base4_peek_all(self) ==
    [index \in 1..self.size |-> Base4_peek_at(self, index - 1).out[1]]

(***************************************************************************)
(* Base4Int, the chained container: a VecDeque<Base4>, front first.  Every *)
(* operation returns the deque after the call in `blocks`, the panic       *)
(* message in `panic` (NoPanic when it returns) and its value in `out`.    *)
(***************************************************************************)
Base4Int_new == <<>>

RECURSIVE SumSizes(_, _)
SumSizes(blocks, from) ==
    IF from > Len(blocks) THEN 0
    ELSE blocks[from].size + SumSizes(blocks, from + 1)

total_len(blocks) == SumSizes(blocks, 1)

total_blocks(blocks) == Len(blocks)

\* get_codec comparing with `<=`: a full back block is handed out again.
get_codec_off_by_one(blocks) ==
    IF Len(blocks) > 0 /\ blocks[Len(blocks)].size <= CAPACITY
    THEN blocks
    ELSE Append(blocks, Base4_new)

\* get_codec handing out the back block even when it is full.
get_codec_reuses_full(blocks) ==
    IF Len(blocks) > 0
    THEN blocks
    ELSE Append(blocks, Base4_new)

\* The deque after get_codec; the block it hands out is the back one.
get_codec(blocks) ==
    IF Len(blocks) > 0 /\ blocks[Len(blocks)].size < CAPACITY
    THEN blocks
    ELSE Append(blocks, Base4_new)

\* Base4Int_push fetching the block before it checks the value.
Base4Int_push_codec_first(blocks, integer) ==
    LET got == get_codec(blocks)
    IN  IF ~(integer < 4)
        THEN [panic |-> PanicPush, blocks |-> got]
        ELSE [panic |-> NoPanic,
              blocks |-> [got EXCEPT ![Len(got)] = Base4_push(got[Len(got)], integer).self]]

Base4Int_push(blocks, integer) ==
    IF ~(integer < 4)
    THEN [panic |-> PanicPush, blocks |-> blocks]
    ELSE LET got == get_codec(blocks)
             r == Base4_push(got[Len(got)], integer)
         IN  [panic |-> NoPanic, blocks |-> [got EXCEPT ![Len(got)] = r.self]]

\* One pass of the `for integer in ints` loop body; a panic ends the call.
\* `done` counts the elements pushed before it.
Base4Int_push_step(st, integer) ==
    IF st.panic # NoPanic THEN st
    ELSE LET r == Base4Int_push(st.blocks, integer)
         IN  [panic |-> r.panic, blocks |-> r.blocks,
              done |-> IF r.panic = NoPanic THEN st.done + 1 ELSE st.done]

RECURSIVE Base4Int_push_loop(_, _, _, _)
Base4Int_push_loop(st, ints, lo, hi) ==
    IF lo > hi THEN st
    ELSE IF lo = hi THEN Base4Int_push_step(st, ints[lo])
    ELSE LET mid == (lo + hi) \div 2
             left == Base4Int_push_loop(st, ints, lo, mid)
         IN  IF left.panic # NoPanic THEN left
             ELSE Base4Int_push_loop(left, ints, mid + 1, hi)

Base4Int_push_all(blocks, ints) ==
    Base4Int_push_loop([panic |-> NoPanic, blocks |-> blocks, done |-> 0],
                       ints, 1, Len(ints))

\* Base4Int_pop without the eviction of the emptied back block.
Base4Int_pop_no_evict(blocks) ==
    IF Len(blocks) = 0
    THEN [panic |-> PanicPop, out |-> None, blocks |-> blocks]
    ELSE LET r == Base4_pop(blocks[Len(blocks)])
         IN  [panic |-> NoPanic, out |-> r.out,
              blocks |-> [blocks EXCEPT ![Len(blocks)] = r.self]]

Base4Int_pop(blocks) ==
    IF Len(blocks) = 0
    THEN [panic |-> PanicPop, out |-> None, blocks |-> blocks]
    ELSE LET r == Base4_pop(blocks[Len(blocks)])
             empty == r.self.size = 0
         IN  [panic |-> NoPanic,
              out |-> r.out,
              blocks |-> IF empty
                         THEN SubSeq(blocks, 1, Len(blocks) - 1)
                         ELSE [blocks EXCEPT ![Len(blocks)] = r.self]]

\* The drain loop taking the blocks from the back (pop_back) instead of
\* from the front.
RECURSIVE Base4Int_drain_back_first(_, _)
Base4Int_drain_back_first(blocks, ints) ==
    IF Len(blocks) = 0
    THEN [out |-> ints, blocks |-> blocks]
    ELSE Base4Int_drain_back_first(SubSeq(blocks, 1, Len(blocks) - 1),
                                   ints \o Base4_pop_all(blocks[Len(blocks)]).out)

\* The `while let Some(mut codec) = self.0.pop_front()` loop.
RECURSIVE Base4Int_drain(_, _)
Base4Int_drain(blocks, ints) ==
    IF Len(blocks) = 0
    THEN [out |-> ints, blocks |-> blocks]
    ELSE Base4Int_drain(Tail(blocks), ints \o Base4_pop_all(Head(blocks)).out)

\* Base4Int_pop_all draining the blocks in place instead of popping them
\* off the deque.
Base4Int_pop_all_in_place(blocks) ==
    IF total_len(blocks) = 0
    THEN [panic |-> NoPanic, out |-> <<>>, blocks |-> blocks]
    ELSE [panic |-> NoPanic,
          out |-> Base4Int_drain(blocks, <<>>).out,
          blocks |-> [i \in 1..Len(blocks) |-> Base4_pop_all(blocks[i]).self]]

Base4Int_pop_all(blocks) ==
    IF total_len(blocks) = 0
    THEN [panic |-> NoPanic, out |-> <<>>, blocks |-> blocks]
    ELSE LET r == Base4Int_drain(blocks, <<>>)
         IN  [panic |-> NoPanic, out |-> r.out, blocks |-> r.blocks]

\* Base4Int_peek_at asserting `index <= total_len`.
Base4Int_peek_at_off_by_one(blocks, index) ==
    IF ~(index <= total_len(blocks))
    THEN [panic |-> PanicPeekAt(index, total_len(blocks)), out |-> None]
    ELSE LET codec_index == index \div CAPACITY
             peek_index == index % CAPACITY
         IN  IF ~(codec_index < Len(blocks))
             THEN [panic |-> PanicIndex, out |-> None]
             ELSE Base4_peek_at(blocks[codec_index + 1], peek_index)

Base4Int_peek_at(blocks, index) ==
    IF ~(index < total_len(blocks))
    THEN [panic |-> PanicPeekAt(index, total_len(blocks)), out |-> None]
    ELSE LET codec_index == index \div CAPACITY
             peek_index == index % CAPACITY
         IN  IF ~(codec_index < Len(blocks))
             THEN [panic |-> PanicIndex, out |-> None]
             ELSE Base4_peek_at(blocks[codec_index + 1], peek_index)

RECURSIVE Base4Int_peek_loop(_, _, _)
Base4Int_peek_loop(blocks, codec_idx, ints) ==
    IF ~(codec_idx < total_blocks(blocks))
    THEN ints
    ELSE Base4Int_peek_loop(blocks, codec_idx + 1,
                            ints \o Base4_peek_all(blocks[codec_idx + 1]))

Base4Int_peek_all(blocks) == Base4Int_peek_loop(blocks, 0, <<>>)

(***************************************************************************)
(* The state: one Base4Int (`blocks`), one stand-alone Base4 (`codec`),    *)
(* the record of the last call and of the call before it, and the number   *)
(* of calls made.  A panic is recorded in the call's record and leaves the *)
(* object as the unwinding call left it.  `shadow` is the abstract digit   *)
(* sequence, oldest first, that the object in use is meant to hold; it is  *)
(* run side by side with the calls and read by no call.                    *)
(***************************************************************************)
VARIABLES blocks, codec, last, prev, steps, shadow

vars == <<blocks, codec, last, prev, steps, shadow>>

\* The abstract stack: push appends a digit, push_all appends the digits in
\* front of the first one out of range, pop removes the last, pop_all
\* empties.
ValidPrefix(ints) ==
    LET bad == {i \in 1..Len(ints) : ints[i] >= 4}
    IN  IF bad = {} THEN Len(ints)
        ELSE (CHOOSE i \in bad : \A j \in bad : i <= j) - 1

AbsPush(A, integer) == IF integer < 4 THEN Append(A, integer) ELSE A

AbsPushAll(A, ints) == A \o SubSeq(ints, 1, ValidPrefix(ints))

AbsPop(A) == IF Len(A) = 0 THEN A ELSE SubSeq(A, 1, Len(A) - 1)

AbsPopAll(A) == <<>>

\* The abstract fixed-capacity block: a digit out of range or beyond the
\* capacity is refused; a sequence longer than the capacity is refused as
\* a whole, and one refused part-way leaves the block empty.
AbsBlockPush(A, integer) ==
    IF integer < 4 /\ Len(A) < CAPACITY THEN Append(A, integer) ELSE A

AbsBlockPushAll(A, ints) ==
    IF Len(ints) > CAPACITY THEN A
    ELSE IF ValidPrefix(ints) = Len(ints) /\ Len(A) + Len(ints) <= CAPACITY
         THEN A \o ints
         ELSE <<>>

\* A call: its name, arguments, boolean result (TRUE where the method
\* returns none), panic, returned digits, and what it started from: the
\* digit count, the block count and the size of the back block.
Call(op, arg, ok, panic, out, pre_len, pre_blocks, pre_tail) ==
    [op |-> op, arg |-> arg, ok |-> ok, panic |-> panic, out |-> out,
     pre_len |-> pre_len, pre_blocks |-> pre_blocks, pre_tail |-> pre_tail]

NoCall == Call("new", <<>>, TRUE, NoPanic, <<>>, 0, 0, 0)

back_size(bs) == IF Len(bs) = 0 THEN 0 ELSE bs[Len(bs)].size

\* A call on the container, started from `blocks`.
IntCall(op, arg, panic, out) ==
    Call(op, arg, TRUE, panic, out, total_len(blocks), total_blocks(blocks),
         back_size(blocks))

\* A call on the stand-alone block, started from `codec`.
BlockCall(op, arg, ok, panic, out) ==
    Call(op, arg, ok, panic, out, codec.size, 0, codec.size)

\* Inputs: digit sequences whose neighbours differ, of the lengths around
\* the block boundaries, and the same with one element out of range.
Digits(n, seed) == [i \in 1..n |-> (((i + seed) * (i + seed)) \div 3 + seed) % 4]

Poison(ints, k) == [ints EXCEPT ![k] = MaxValue]

Lengths == {0, CAPACITY - 1, CAPACITY + 1, MaxBlocks * CAPACITY, MaxBlocks * CAPACITY + 1}

ValidInputs == {Digits(n, 0) : n \in Lengths}

PoisonedInputs == {Poison(Digits(CAPACITY + 2, 1), k) : k \in {1, CAPACITY + 1, CAPACITY + 2}}

Inputs == ValidInputs \cup PoisonedInputs

PeekIndices(n) == {i \in {0, CAPACITY, n - 1, n} : i >= 0}

BlockLengths == {0, 1, CAPACITY - 1, CAPACITY, CAPACITY + 1}

BlockInputs == {Digits(n, 0) : n \in BlockLengths}
               \cup {Poison(Digits(3, 1), k) : k \in {1, 3}}
               \cup {Poison(Digits(CAPACITY + 1, 1), 2)}

BlockPeekIndices(n) == {i \in {0, n - 1, n} : i >= 0}

Init ==
    /\ blocks = Base4Int_new
    /\ codec = Base4_new
    /\ last = NoCall
    /\ prev = NoCall
    /\ steps = 0
    /\ shadow = <<>>

\* Bookkeeping common to the calls.
Record(call) ==
    /\ steps' = steps + 1
    /\ prev' = last
    /\ last' = call

(***************************************************************************)
(* Calls on the container.                                                 *)
(***************************************************************************)
Push(integer) ==
    LET r == Base4Int_push(blocks, integer)
    IN  /\ steps < MaxOps
        /\ blocks' = r.blocks
        /\ Record(IntCall("Base4Int::push", <<integer>>, r.panic, <<>>))
        /\ shadow' = AbsPush(shadow, integer)
        /\ UNCHANGED codec

PushAll(ints) ==
    LET r == Base4Int_push_all(blocks, ints)
    IN  /\ steps < MaxOps
        /\ blocks' = r.blocks
        /\ Record(IntCall("Base4Int::push_all", ints, r.panic, <<>>))
        /\ shadow' = AbsPushAll(shadow, ints)
        /\ UNCHANGED codec

Pop ==
    LET r == Base4Int_pop(blocks)
    IN  /\ steps < MaxOps
        /\ blocks' = r.blocks
        /\ Record(IntCall("Base4Int::pop", <<>>, r.panic, r.out))
        /\ shadow' = AbsPop(shadow)
        /\ UNCHANGED codec

PopAll ==
    LET r == Base4Int_pop_all(blocks)
    IN  /\ steps < MaxOps
        /\ blocks' = r.blocks
        /\ Record(IntCall("Base4Int::pop_all", <<>>, r.panic, r.out))
        /\ shadow' = AbsPopAll(shadow)
        /\ UNCHANGED codec

PeekAt(index) ==
    LET r == Base4Int_peek_at(blocks, index)
    IN  /\ steps < MaxOps
        /\ Record(IntCall("Base4Int::peek_at", <<index>>, r.panic, r.out))
        /\ UNCHANGED <<blocks, codec, shadow>>

PeekAll ==
    /\ steps < MaxOps
    /\ Record(IntCall("Base4Int::peek_all", <<>>, NoPanic, Base4Int_peek_all(blocks)))
    /\ UNCHANGED <<blocks, codec, shadow>>

Next ==
    \/ \E integer \in 0..MaxValue : Push(integer)
    \/ \E ints \in Inputs : PushAll(ints)
    \/ Pop
    \/ PopAll
    \/ \E index \in PeekIndices(total_len(blocks)) : PeekAt(index)
    \/ PeekAll

Spec == Init /\ [][Next]_vars

(***************************************************************************)
(* Calls on the stand-alone block.                                         *)
(***************************************************************************)
BlockPush(integer) ==
    LET r == Base4_push(codec, integer)
    IN  /\ steps < MaxOps
        /\ codec' = r.self
        /\ Record(BlockCall("Base4::push", <<integer>>, r.ok, NoPanic, <<>>))
        /\ shadow' = AbsBlockPush(shadow, integer)
        /\ UNCHANGED blocks

BlockPushAll(ints) ==
    LET r == Base4_push_all(codec, ints)
    IN  /\ steps < MaxOps
        /\ codec' = r.self
        /\ Record(BlockCall("Base4::push_all", ints, r.ok, NoPanic, <<>>))
        /\ shadow' = AbsBlockPushAll(shadow, ints)
        /\ UNCHANGED blocks

BlockPop ==
    LET r == Base4_pop(codec)
    IN  /\ steps < MaxOps
        /\ codec' = r.self
        /\ Record(BlockCall("Base4::pop", <<>>, TRUE, NoPanic, r.out))
        /\ shadow' = AbsPop(shadow)
        /\ UNCHANGED blocks

BlockPopAll ==
    LET r == Base4_pop_all(codec)
    IN  /\ steps < MaxOps
        /\ codec' = r.self
        /\ Record(BlockCall("Base4::pop_all", <<>>, TRUE, NoPanic, r.out))
        /\ shadow' = AbsPopAll(shadow)
        /\ UNCHANGED blocks

BlockPeekAt(index) ==
    LET r == Base4_peek_at(codec, index)
    IN  /\ steps < MaxOps
        /\ Record(BlockCall("Base4::peek_at", <<index>>, TRUE, r.panic, r.out))
        /\ UNCHANGED <<blocks, codec, shadow>>

\* A peek_all that empties the block it reads (pop_all in place of the
\* read-only walk).
BlockPeekAll_draining ==
    LET r == Base4_pop_all(codec)
    IN  /\ steps < MaxOps
        /\ codec' = r.self
        /\ Record(BlockCall("Base4::peek_all", <<>>, TRUE, NoPanic, r.out))
        /\ UNCHANGED <<blocks, shadow>>

BlockPeekAll ==
    /\ steps < MaxOps
    /\ Record(BlockCall("Base4::peek_all", <<>>, TRUE, NoPanic, Base4_peek_all(codec)))
    /\ UNCHANGED <<blocks, codec, shadow>>

BlockNext ==
    \/ \E integer \in 0..MaxValue : BlockPush(integer)
    \/ \E ints \in BlockInputs : BlockPushAll(ints)
    \/ BlockPop
    \/ BlockPopAll
    \/ \E index \in BlockPeekIndices(codec.size) : BlockPeekAt(index)
    \/ BlockPeekAll

BlockSpec == Init /\ [][BlockNext]_vars

(***************************************************************************)
(* Properties of the container (checked under Spec).                       *)
(***************************************************************************)

\* C1: in every state reached by push, push_all, pop, pop_all, peek_at and
\* peek_all from an empty Base4Int, every block but the last holds CAPACITY
\* digits and no block is empty.
C1_OnlyTailNonFull ==
    \A i \in 1..Len(blocks) :
        /\ blocks[i].size # 0
        /\ i < Len(blocks) => blocks[i].size = CAPACITY

\* A pop has just emptied and evicted the back block of several.
C1_Witness ==
    /\ last.op = "Base4Int::pop"
    /\ last.panic = NoPanic
    /\ last.pre_blocks = MaxBlocks + 1
    /\ total_blocks(blocks) = MaxBlocks

\* C2: push_all(S) on an empty container followed by pop_all() returns S,
\* in insertion order, whatever the length of S.
C2_RoundTrip ==
    ( /\ last.op = "Base4Int::pop_all"
      /\ prev.op = "Base4Int::push_all"
      /\ prev.panic = NoPanic
      /\ prev.pre_blocks = 0 )
    => /\ last.panic = NoPanic
       /\ last.out = prev.arg

\* A sequence that fills several blocks and one digit more came back.
C2_Witness ==
    /\ last.op = "Base4Int::pop_all"
    /\ prev.op = "Base4Int::push_all"
    /\ prev.panic = NoPanic
    /\ prev.pre_blocks = 0
    /\ Len(prev.arg) = MaxBlocks * CAPACITY + 1
    /\ Len(last.out) = MaxBlocks * CAPACITY + 1

\* C3: after push_all(S) on an empty container, peek_at(i) is S[i] for
\* every i < len(S), read from block i / CAPACITY at offset i % CAPACITY,
\* and peek_all() is S.
C3_PeekOrdering ==
    ( /\ last.op = "Base4Int::push_all"
      /\ last.panic = NoPanic
      /\ last.pre_blocks = 0 )
    => /\ \A i \in 0..(Len(last.arg) - 1) :
            /\ Base4Int_peek_at(blocks, i) = [panic |-> NoPanic, out |-> Some(last.arg[i + 1])]
            /\ i \div CAPACITY < total_blocks(blocks)
            /\ Base4_peek_at(blocks[(i \div CAPACITY) + 1], i % CAPACITY).out
                   = Some(last.arg[i + 1])
       /\ Base4Int_peek_all(blocks) = last.arg

\* peek_at was called on a digit of the second block after such a push_all.
C3_Witness ==
    /\ last.op = "Base4Int::peek_at"
    /\ prev.op = "Base4Int::push_all"
    /\ prev.panic = NoPanic
    /\ prev.pre_blocks = 0
    /\ last.arg[1] >= CAPACITY
    /\ last.panic = NoPanic
    /\ last.out = Some(prev.arg[last.arg[1] + 1])

\* C4: a valid push onto k full blocks (k >= 0) makes k + 1 blocks and
\* k * CAPACITY + 1 digits; a pop right after it returns the digit and
\* restores k blocks and k * CAPACITY digits; a push onto a container whose
\* back block is not full leaves the block count as it was.
C4_BoundaryPushPop ==
    /\ ( /\ last.op = "Base4Int::push"
         /\ last.panic = NoPanic
         /\ last.pre_len = last.pre_blocks * CAPACITY )
       => /\ total_blocks(blocks) = last.pre_blocks + 1
          /\ total_len(blocks) = last.pre_blocks * CAPACITY + 1
    /\ ( /\ last.op = "Base4Int::pop"
         /\ prev.op = "Base4Int::push"
         /\ prev.panic = NoPanic
         /\ prev.pre_len = prev.pre_blocks * CAPACITY )
       => /\ last.panic = NoPanic
          /\ last.out = Some(prev.arg[1])
          /\ total_blocks(blocks) = prev.pre_blocks
          /\ total_len(blocks) = prev.pre_blocks * CAPACITY
    /\ ( /\ last.op = "Base4Int::push"
         /\ last.panic = NoPanic
         /\ last.pre_blocks > 0
         /\ last.pre_tail < CAPACITY )
       => total_blocks(blocks) = last.pre_blocks

\* A digit was pushed onto MaxBlocks full blocks and popped again.
C4_Witness ==
    /\ last.op = "Base4Int::pop"
    /\ prev.op = "Base4Int::push"
    /\ prev.panic = NoPanic
    /\ prev.pre_blocks = MaxBlocks
    /\ prev.pre_len = MaxBlocks * CAPACITY
    /\ total_blocks(blocks) = MaxBlocks

\* C8: Base4Int::pop panics ("Attempt to pop an empty Base4-Integer") exactly
\* when total_len() is 0; with total_len() > 0 it returns a digit, never None.
C8_PopPanicsIffEmpty ==
    /\ (Base4Int_pop(blocks).panic = PanicPop) <=> (total_len(blocks) = 0)
    /\ last.op = "Base4Int::pop"
       => /\ (last.panic = PanicPop) <=> (last.pre_len = 0)
          /\ last.pre_len > 0
             => /\ last.panic = NoPanic
                /\ last.out # None
                /\ last.out[1] \in 0..3

\* The only digit was popped, and the pop after it panicked.
C8_Witness ==
    /\ last.op = "Base4Int::pop"
    /\ last.panic = PanicPop
    /\ prev.op = "Base4Int::pop"
    /\ prev.panic = NoPanic
    /\ prev.pre_len = 1

\* C9: Base4Int::peek_at(index) panics exactly when index >= total_len(),
\* naming the index and the total length; for index < total_len() block
\* index / CAPACITY exists and index % CAPACITY is below its size, so no
\* bounds check fires.
C9_PeekAtBounds ==
    /\ \A index \in 0..(total_len(blocks) + 1) :
          LET r == Base4Int_peek_at(blocks, index)
          IN  IF index >= total_len(blocks)
              THEN r.panic = PanicPeekAt(index, total_len(blocks))
              ELSE /\ r.panic = NoPanic
                   /\ index \div CAPACITY < total_blocks(blocks)
                   /\ index % CAPACITY < blocks[(index \div CAPACITY) + 1].size
    /\ last.op = "Base4Int::peek_at"
       => (last.panic # NoPanic) <=> (last.arg[1] >= last.pre_len)

\* peek_at one past the end of a container of more than one block panicked.
C9_Witness ==
    /\ last.op = "Base4Int::peek_at"
    /\ last.pre_len > CAPACITY
    /\ last.arg[1] = last.pre_len
    /\ last.panic = PanicPeekAt(last.pre_len, last.pre_len)

\* The position of the first element of ints that is out of range.
FirstBad(ints) ==
    CHOOSE k \in 1..Len(ints) : ints[k] >= 4 /\ \A j \in 1..(k - 1) : ints[j] < 4

\* C10: Base4Int::push_all panics at the first element values[k] >= 4 and
\* the container then holds what it held followed by values[0..k): the
\* pushes before it stay, the failing one adds no digit and no block.
C10_PushAllNotAtomic ==
    [][ ( /\ last'.op = "Base4Int::push_all"
          /\ \E k \in 1..Len(last'.arg) : last'.arg[k] >= 4 )
        => LET k == FirstBad(last'.arg)
               done == SubSeq(last'.arg, 1, k - 1)
           IN  /\ last'.panic = PanicPush
               /\ Base4Int_peek_all(blocks') = Base4Int_peek_all(blocks) \o done
               /\ total_len(blocks') = total_len(blocks) + (k - 1)
               /\ blocks' = Base4Int_push_all(blocks, done).blocks
               /\ \A i \in 1..Len(blocks') : blocks'[i].size > 0
      ]_vars

\* push_all panicked on a non-empty container after CAPACITY + 1 pushes.
C10_Witness ==
    /\ last.op = "Base4Int::push_all"
    /\ last.panic = PanicPush
    /\ last.pre_len > 0
    /\ total_len(blocks) = last.pre_len + CAPACITY + 1

(***************************************************************************)
(* Properties of one block (checked under BlockSpec).                      *)
(***************************************************************************)

\* C5: Base4::push(value) returns true, adds one to size and appends value
\* as the newest digit exactly when value <= 3 and size < CAPACITY;
\* otherwise it returns false and leaves size and packed as they were.
C5_PushAcceptance ==
    [][ last'.op = "Base4::push"
        => IF last'.arg[1] <= 3 /\ codec.size < CAPACITY
           THEN /\ last'.ok
                /\ codec'.size = codec.size + 1
                /\ Base4_peek_all(codec') = Append(Base4_peek_all(codec), last'.arg[1])
                /\ Base4_pop(codec').out = Some(last'.arg[1])
           ELSE /\ ~last'.ok
                /\ last'.panic = NoPanic
                /\ codec' = codec
      ]_vars

\* A push filled the block and the push of a digit after it was refused.
C5_Witness ==
    /\ last.op = "Base4::push"
    /\ ~last.ok
    /\ last.arg[1] <= 3
    /\ last.pre_len = CAPACITY
    /\ prev.op = "Base4::push"
    /\ prev.ok
    /\ prev.pre_len = CAPACITY - 1
    /\ codec.size = CAPACITY

\* C6 as stated: a push_all that returns false, because the input has more
\* than CAPACITY elements or holds an element outside 0..=3, leaves the
\* block exactly as it was, whatever it held.
C6_FailureRestores ==
    [][ ( /\ last'.op = "Base4::push_all"
          /\ ~last'.ok
          /\ \/ Len(last'.arg) > CAPACITY
             \/ \E k \in 1..Len(last'.arg) : last'.arg[k] >= 4 )
        => codec' = codec
      ]_vars

\* C7 as stated: whenever push_all returns false the block is empty
\* afterwards (size 0, packed 0), whatever it held.
C7_FailureEmpties ==
    [][ (last'.op = "Base4::push_all" /\ ~last'.ok)
        => (codec'.size = 0 /\ codec'.packed = U128_ZERO)
      ]_vars

\* C7 amended: a push_all that returns false on an input of at most
\* CAPACITY elements leaves the block empty (size 0, packed 0); one that
\* returns false because the input has more than CAPACITY elements leaves
\* the block as it was.
C7_FailureEmptiesUnlessTooLong ==
    [][ (last'.op = "Base4::push_all" /\ ~last'.ok)
        => IF Len(last'.arg) > CAPACITY
           THEN codec' = codec
           ELSE codec'.size = 0 /\ codec'.packed = U128_ZERO
      ]_vars

\* A block holding digits refused an over-long input and kept them, then
\* refused an input with an element out of range and was emptied.
C7_Witness ==
    /\ prev.op = "Base4::push_all"
    /\ ~prev.ok
    /\ Len(prev.arg) > CAPACITY
    /\ prev.pre_len > 0
    /\ last.op = "Base4::push_all"
    /\ ~last.ok
    /\ Len(last.arg) <= CAPACITY
    /\ last.pre_len = prev.pre_len
    /\ last.arg[1] < 4
    /\ codec = Base4_new

(***************************************************************************)
(* The block's round trip, peeks, pop and register.                        *)
(***************************************************************************)
InRange(ints) == \A i \in 1..Len(ints) : ints[i] < 4

\* C11: a push_all of at most CAPACITY digits of 0..=3 on an empty block
\* (fresh, or emptied by earlier pops) returns true, and a pop_all from the
\* state it leaves returns exactly the digits pushed, oldest first (both for
\* the pop_all that is called next and for the one that could be); a pop_all
\* on an empty block returns the empty sequence; after any pop_all the block
\* has size 0.
C11_BlockRoundTrip ==
    /\ (/\ last.op = "Base4::push_all"
        /\ last.pre_len = 0
        /\ Len(last.arg) <= CAPACITY
        /\ InRange(last.arg))
       => (last.ok /\ Base4_pop_all(codec).out = last.arg)
    /\ (/\ last.op = "Base4::pop_all"
        /\ prev.op = "Base4::push_all"
        /\ prev.pre_len = 0
        /\ Len(prev.arg) <= CAPACITY
        /\ InRange(prev.arg))
       => (prev.ok /\ last.out = prev.arg)
    /\ (last.op = "Base4::pop_all" /\ last.pre_len = 0) => last.out = <<>>
    /\ last.op = "Base4::pop_all" => codec.size = 0

\* A block that had been called on before and was empty took CAPACITY
\* digits at once, and the next pop_all gave them back.
C11_Witness ==
    /\ steps = 3
    /\ prev.op = "Base4::push_all"
    /\ prev.pre_len = 0
    /\ prev.ok
    /\ Len(prev.arg) = CAPACITY
    /\ last.op = "Base4::pop_all"
    /\ last.out = prev.arg
    /\ codec.size = 0

\* C12: a block holds the digits d[0..size) of its abstract sequence in
\* insertion order: peek_at(i) returns d[i] for every i < size, which is
\* the lane at position size - i - 1 from the low end of the register, and
\* panics with the out-of-bounds message for every i >= size; peek_all
\* returns d[0..size).  The same holds of the peeks that were called.
C12_BlockPeekOrdering ==
    /\ Len(shadow) = codec.size
    /\ \A i \in 0..(codec.size - 1) :
          /\ Base4_peek_at(codec, i) = [panic |-> NoPanic, out |-> Some(shadow[i + 1])]
          /\ shadow[i + 1] = LaneAt(codec.packed, 2 * (codec.size - i - 1))
    /\ \A i \in {codec.size, codec.size + 1, CAPACITY, REGISTER_BITS} :
          i >= codec.size
            => Base4_peek_at(codec, i) = [panic |-> PanicPeekAt(i, codec.size), out |-> None]
    /\ Base4_peek_all(codec) = shadow
    /\ last.op = "Base4::peek_at"
         => IF last.arg[1] < codec.size
            THEN last.panic = NoPanic /\ last.out = Some(shadow[last.arg[1] + 1])
            ELSE last.panic = PanicPeekAt(last.arg[1], codec.size)
    /\ last.op = "Base4::peek_all" => (last.panic = NoPanic /\ last.out = shadow)

\* A full block lost its newest digit to a pop, and the peek at the last
\* valid index returned the digit pushed before it.
C12_Witness ==
    /\ prev.op = "Base4::pop"
    /\ prev.pre_len = CAPACITY
    /\ last.op = "Base4::peek_at"
    /\ last.arg = <<CAPACITY - 2>>
    /\ last.panic = NoPanic
    /\ last.out = Some(shadow[CAPACITY - 1])
    /\ codec.size = CAPACITY - 1

\* C13: a pop on a block with size > 0 returns the most recently pushed
\* digit, decrements size and leaves the older digits as they were; a pop
\* on a block with size 0 returns None without panicking and leaves size
\* and packed unchanged.
C13_BlockPopLifo ==
    [][ last'.op = "Base4::pop"
        => /\ last'.panic = NoPanic
           /\ IF codec.size > 0
              THEN /\ last'.out = Some(shadow[Len(shadow)])
                   /\ codec'.size = codec.size - 1
                   /\ Base4_peek_all(codec')
                        = SubSeq(Base4_peek_all(codec), 1, codec.size - 1)
              ELSE /\ last'.out = None
                   /\ codec' = codec
      ]_vars

\* A full block was popped twice: the first pop returned the newest digit,
\* the second the one pushed before it, and the other digits stayed.
C13_Witness ==
    /\ prev.op = "Base4::pop"
    /\ prev.pre_len = CAPACITY
    /\ prev.out = Some(Digits(CAPACITY, 0)[CAPACITY])
    /\ last.op = "Base4::pop"
    /\ last.pre_len = CAPACITY - 1
    /\ last.out = Some(Digits(CAPACITY, 0)[CAPACITY - 1])
    /\ Base4_peek_all(codec) = Digits(CAPACITY - 2, 0)

(***************************************************************************)
(* A program that works on one object: either the container or the         *)
(* stand-alone block, from the first call on.                              *)
(***************************************************************************)
ContainerCalls == {"Base4Int::push", "Base4Int::push_all", "Base4Int::pop",
                   "Base4Int::pop_all", "Base4Int::peek_at", "Base4Int::peek_all"}

BlockCalls == {"Base4::push", "Base4::push_all", "Base4::pop",
               "Base4::pop_all", "Base4::peek_at", "Base4::peek_all"}

ObjectNext ==
    \/ last.op \notin BlockCalls /\ Next
    \/ last.op \notin ContainerCalls /\ BlockNext

ObjectSpec == Init /\ [][ObjectNext]_vars

\* C14: a peek_at with a valid index and a peek_all, on a block or on the
\* container, return without changing anything: every block's size and
\* packed register, the number of blocks and total_len() are what they
\* were before the call.
C14_PeeksDoNotMutate ==
    [][ (/\ last'.op \in {"Base4::peek_at", "Base4::peek_all",
                          "Base4Int::peek_at", "Base4Int::peek_all"}
         /\ last'.panic = NoPanic)
        => /\ codec' = codec
           /\ blocks' = blocks
           /\ total_blocks(blocks') = total_blocks(blocks)
           /\ total_len(blocks') = total_len(blocks)
      ]_vars

\* A container of two blocks was peeked at the first index of its second
\* block and still holds what push_all put into it.
C14_Witness ==
    /\ prev.op = "Base4Int::push_all"
    /\ last.op = "Base4Int::peek_at"
    /\ last.arg = <<CAPACITY>>
    /\ last.panic = NoPanic
    /\ last.pre_blocks = MaxBlocks
    /\ total_blocks(blocks) = MaxBlocks
    /\ Base4Int_peek_all(blocks) = prev.arg

\* C15: in every state reachable by push, push_all, pop and pop_all,
\* successful or failing, the block's size is between 0 and CAPACITY, and
\* CAPACITY is 64, the number of 2-bit lanes of the 128-bit register.
C15_BlockSizeBound ==
    /\ codec.size \in 0..CAPACITY
    /\ CAPACITY = 64
    /\ 2 * CAPACITY = REGISTER_BITS
    /\ Len(codec.packed) = CAPACITY

\* A full block refused one more digit and was then drained: both ends of
\* the range were met.
C15_Witness ==
    /\ prev.op = "Base4::push"
    /\ prev.arg[1] < 4
    /\ ~prev.ok
    /\ prev.pre_len = CAPACITY
    /\ last.op = "Base4::pop_all"
    /\ last.pre_len = CAPACITY
    /\ Len(last.out) = CAPACITY
    /\ codec.size = 0

\* C20: in every state reachable by push, push_all, pop and pop_all the
\* register holds no stale bits: every lane at position >= size is zero
\* (packed < 4^size), so an empty block has packed == 0, and the lane that
\* the left shift of an accepted push drops is zero.
C20_NoStaleBits ==
    /\ \A i \in 1..(LANES - codec.size) : codec.packed[i] = 0
    /\ codec.size = 0 => codec.packed = U128_ZERO
    /\ \A integer \in 0..MaxValue :
          Base4_push(codec, integer).ok
            => /\ codec.packed[1] = 0
               /\ Shr2(Shl2(codec.packed)) = codec.packed

\* A block holding digits was emptied by a push_all refused part-way, and
\* the digit pushed next stands alone in the register.
C20_Witness ==
    /\ prev.op = "Base4::push_all"
    /\ prev.arg = Poison(Digits(3, 1), 3)
    /\ ~prev.ok
    /\ prev.pre_len > 0
    /\ last.op = "Base4::push"
    /\ last.ok
    /\ last.arg[1] > 0
    /\ codec.size = 1
    /\ codec.packed = OrLow(U128_ZERO, last.arg[1])

(***************************************************************************)
(* The container against its abstract stack, and its whole public          *)
(* interface.                                                              *)
(***************************************************************************)
\* C16: in every state reachable by push, push_all, pop and pop_all, a
\* container push of a value in 0..=3 hands the digit to a block whose size
\* is below CAPACITY, so the block's push (whose result the container
\* ignores) returns true, and total_len() increases by exactly one.  The
\* same holds of the pushes that were called.
C16_PushNeverLosesDigit ==
    /\ \A integer \in 0..3 :
          LET got == get_codec(blocks)
              r == Base4_push(got[Len(got)], integer)
              p == Base4Int_push(blocks, integer)
          IN  /\ got[Len(got)].size < CAPACITY
              /\ r.ok
              /\ p.panic = NoPanic
              /\ total_len(p.blocks) = total_len(blocks) + 1
    /\ (last.op = "Base4Int::push" /\ last.arg[1] < 4)
         => /\ last.panic = NoPanic
            /\ total_len(blocks) = last.pre_len + 1
            /\ Base4Int_peek_all(blocks)[total_len(blocks)] = last.arg[1]

\* A push found every block full and its digit went into a new block.
C16_Witness ==
    /\ last.op = "Base4Int::push"
    /\ last.arg[1] \in 1..3
    /\ last.pre_tail = CAPACITY
    /\ last.pre_len = MaxBlocks * CAPACITY
    /\ total_blocks(blocks) = MaxBlocks + 1
    /\ total_len(blocks) = MaxBlocks * CAPACITY + 1
    /\ blocks[total_blocks(blocks)] = [size |-> 1, packed |-> OrLow(U128_ZERO, last.arg[1])]

\* C17: the container refines the abstract stack A run beside it (push
\* appends, pop removes the last element, pop_all empties): after every
\* call, across block boundaries too, peek_all() equals A and total_len()
\* equals len(A); every pop on a non-empty A returns its last element; and
\* pop_all returns A.
C17_RefinesAbstractStack ==
    [][ /\ Base4Int_peek_all(blocks') = shadow'
        /\ total_len(blocks') = Len(shadow')
        /\ (last'.op = "Base4Int::pop" /\ Len(shadow) > 0)
             => /\ last'.panic = NoPanic
                /\ last'.out = Some(shadow[Len(shadow)])
                /\ shadow' = SubSeq(shadow, 1, Len(shadow) - 1)
        /\ last'.op = "Base4Int::pop_all"
             => /\ last'.panic = NoPanic
                /\ last'.out = shadow
                /\ shadow' = <<>>
        /\ (last'.op = "Base4Int::push" /\ last'.panic = NoPanic)
             => shadow' = Append(shadow, last'.arg[1])
      ]_vars

\* Two full blocks and one digit more went in, a pop took the digit away
\* with its block, and pop_all returned the contents of both full blocks.
C17_Witness ==
    /\ prev.op = "Base4Int::pop"
    /\ prev.pre_blocks = MaxBlocks + 1
    /\ prev.pre_tail = 1
    /\ last.op = "Base4Int::pop_all"
    /\ last.pre_blocks = MaxBlocks
    /\ last.out = Digits(MaxBlocks * CAPACITY, 0)
    /\ shadow = <<>>
    /\ blocks = Base4Int_new

(***************************************************************************)
(* The whole public interface of the container: the calls of Spec and      *)
(* get_codec, which is `pub`.  The caller drops the reference it is handed *)
(* without writing through it.                                             *)
(***************************************************************************)
GetCodec ==
    /\ steps < MaxOps
    /\ blocks' = get_codec(blocks)
    /\ Record(IntCall("Base4Int::get_codec", <<>>, NoPanic, <<>>))
    /\ UNCHANGED <<codec, shadow>>

PublicNext ==
    \/ Next
    \/ GetCodec

PublicSpec == Init /\ [][PublicNext]_vars

\* C18 as stated: under the whole public interface, get_codec included,
\* the container holds no block with size == 0 once a call has returned.
C18_NoEmptyBlockPublic ==
    \A i \in 1..Len(blocks) : blocks[i].size # 0

\* C19 as stated: from every state reachable through the public methods,
\* get_codec included, after pop_all returns total_blocks() and total_len()
\* are 0, so that a following pop panics; on a container with no digits it
\* returns the empty sequence without error.
C19_PopAllLeavesEmpty ==
    last.op = "Base4Int::pop_all"
      => /\ last.panic = NoPanic
         /\ last.pre_len = 0 => last.out = <<>>
         /\ total_len(blocks) = 0
         /\ total_blocks(blocks) = 0
         /\ Base4Int_pop(blocks).panic = PanicPop

====
